---- MODULE Spec2Model ----
(***************************************************************************)
(* A model of scripts/bulk_load_events.py: the bulk loader that validates  *)
(* conversion events and appends them, batch by batch, to an Iceberg table *)
(* held by an external catalog.  The catalog (load_table, create_table,    *)
(* table.append, snapshot metadata) is an external service: each call      *)
(* either succeeds with the effect the loader relies on, or raises.        *)
(***************************************************************************)
EXTENDS Integers, Sequences, FiniteSets, TLC

(***************************************************************************)
(* Bounds of the model.                                                    *)
(***************************************************************************)
MaxRecords == 3
MaxBatch == 3
MaxProvisionCalls == 3
MaxScenarioRecords == 5
MaxRuns == 2

Procs == {1}

(***************************************************************************)
(* Python values.  Every value carries its type tag; the payload is text.  *)
(***************************************************************************)
Val(t, v) == [t |-> t, v |-> v]
None == Val("none", "")
NaN == Val("float", "nan")
Str(s) == Val("str", s)
PyInt(s) == Val("int", s)
PyFloat(s) == Val("float", s)
Timestamp(s) == Val("timestamp", s)
Uuid(p, n) == Val("uuid", ToString(p) \o "-" \o ToString(n))

\* Texts float() accepts, and texts pd.to_datetime() accepts.
NumericTexts == {"0", "5", "7", "nan"}
IsoTexts == {"2024-01-01T00:00:00"}

\* Python truthiness of a value, as `not event.get('id')` evaluates it.
Truthy(v) ==
    /\ v.t # "none"
    /\ ~(v.t = "str" /\ v.v = "")
    /\ ~(v.t \in {"int", "float"} /\ v.v = "0")

\* A cell that reads as null once the records are a pandas/arrow table.
IsNull(v) == v = None \/ v = NaN \/ v.t = "nat"

(***************************************************************************)
(* Events are dicts: functions from the keys present to values.            *)
(***************************************************************************)
Has(event, k) == k \in DOMAIN event
Get(event, k) == IF Has(event, k) THEN event[k] ELSE None
Put(event, k, v) == [f \in DOMAIN event \cup {k} |-> IF f = k THEN v ELSE event[f]]
SetDefault(event, k, d) == IF Has(event, k) THEN event ELSE Put(event, k, d)

RequiredFields ==
    {"id", "organization_id", "event_id", "timestamp", "event_type",
     "event_value", "currency", "user_id", "session_id"}

column_order ==
    <<"id", "organization_id", "event_id", "timestamp",
      "event_type", "event_value", "currency", "user_id",
      "session_id", "utm_source", "utm_medium", "utm_campaign",
      "device_type", "browser", "country", "attribution_path">>

Columns == {column_order[i] : i \in 1..Len(column_order)}

(***************************************************************************)
(* validate_events, one record at a time.  `n` counts the uuid4() calls    *)
(* made so far, so every generated id is fresh.                            *)
(***************************************************************************)
\* float(x): the converted value, or the exception it raises.
ToFloat(x) ==
    IF x.t \in {"int", "float"} THEN [ok |-> TRUE, v |-> PyFloat(x.v), err |-> "none"]
    ELSE IF x.t = "str" THEN
        IF x.v \in NumericTexts THEN [ok |-> TRUE, v |-> PyFloat(x.v), err |-> "none"]
        ELSE [ok |-> FALSE, v |-> None, err |-> "ValueError"]
    ELSE [ok |-> FALSE, v |-> None, err |-> "TypeError"]

\* pd.to_datetime(x) for the non-native values.
ToDatetime(x) ==
    IF x.t = "str" THEN
        IF x.v \in IsoTexts THEN [ok |-> TRUE, v |-> Timestamp(x.v), err |-> "none"]
        ELSE [ok |-> FALSE, v |-> None, err |-> "ValueError"]
    ELSE IF x.t = "none" THEN [ok |-> TRUE, v |-> None, err |-> "none"]
    ELSE IF x = NaN THEN [ok |-> TRUE, v |-> Val("nat", ""), err |-> "none"]
    ELSE IF x.t \in {"int", "float"} THEN [ok |-> TRUE, v |-> Timestamp(x.v), err |-> "none"]
    ELSE [ok |-> FALSE, v |-> None, err |-> "TypeError"]

\* Lines 184-185: a generated id unless the record has a truthy one.
EnsureId(event, p, n) ==
    IF ~Truthy(Get(event, "id"))
    THEN [event |-> Put(event, "id", Uuid(p, n)), n |-> n + 1]
    ELSE [event |-> event, n |-> n]

\* The caller's organization id only where the record has none.
SetOrganizationIfAbsent(event, organization_id) ==
    SetDefault(event, "organization_id", organization_id)

\* Line 187: the caller's organization id, whatever the record had.
SetOrganization(event, organization_id) == Put(event, "organization_id", organization_id)

\* Lines 190-197: the timestamp parsed, or the current instant when absent.
NormalizeTimestamp(event) ==
    IF Has(event, "timestamp") THEN
        IF event["timestamp"].t = "timestamp"
        THEN [ok |-> TRUE, event |-> event, err |-> "none"]
        ELSE LET r == ToDatetime(event["timestamp"])
             IN  [ok |-> r.ok,
                  event |-> IF r.ok THEN Put(event, "timestamp", r.v) ELSE event,
                  err |-> r.err]
    ELSE [ok |-> TRUE, event |-> Put(event, "timestamp", Timestamp("now")), err |-> "none"]

\* Defaults in which event_type is assigned, not defaulted.
ApplyDefaultsOverwriting(event, p, n) ==
    LET e1 == SetDefault(event, "event_id", Uuid(p, n))
        e2 == Put(e1, "event_type", Str("conversion"))
        e3 == SetDefault(e2, "event_value", PyFloat("0"))
        e4 == SetDefault(e3, "currency", Str("USD"))
        e5 == SetDefault(e4, "user_id", Str("unknown"))
        e6 == SetDefault(e5, "session_id", Uuid(p, n + 1))
    IN  [event |-> e6, n |-> n + 2]

\* Lines 200-205: setdefault fills a key only when the key is not in the dict.
\* Both uuid4() arguments are evaluated whether or not they are used.
ApplyDefaults(event, p, n) ==
    LET e1 == SetDefault(event, "event_id", Uuid(p, n))
        e2 == SetDefault(e1, "event_type", Str("conversion"))
        e3 == SetDefault(e2, "event_value", PyFloat("0"))
        e4 == SetDefault(e3, "currency", Str("USD"))
        e5 == SetDefault(e4, "user_id", Str("unknown"))
        e6 == SetDefault(e5, "session_id", Uuid(p, n + 1))
    IN  [event |-> e6, n |-> n + 2]

\* A coercion that falls back to 0.0 where float() raises.
CoerceValueLenient(event) ==
    LET r == ToFloat(event["event_value"])
    IN  [ok |-> TRUE,
         event |-> Put(event, "event_value", IF r.ok THEN r.v ELSE PyFloat("0")),
         err |-> "none"]

\* Line 208: event_value coerced with float().
CoerceValue(event) ==
    LET r == ToFloat(event["event_value"])
    IN  [ok |-> r.ok,
         event |-> IF r.ok THEN Put(event, "event_value", r.v) ELSE event,
         err |-> r.err]

\* The body of the loop of validate_events for one record.
ValidateEvent(event, organization_id, p, n) ==
    LET a == EnsureId(event, p, n)
        b == SetOrganization(a.event, organization_id)
        c == NormalizeTimestamp(b)
    IN  IF ~c.ok THEN [ok |-> FALSE, event |-> event, n |-> a.n, err |-> c.err]
        ELSE LET d == ApplyDefaults(c.event, p, a.n)
                 e == CoerceValue(d.event)
             IN  [ok |-> e.ok, event |-> e.event, n |-> d.n, err |-> e.err]

\* validate_events: the records in order; the first exception ends the call.
RECURSIVE ValidateFrom(_, _, _, _, _, _)
ValidateFrom(events, i, organization_id, p, n, acc) ==
    IF i > Len(events) THEN [ok |-> TRUE, events |-> acc, n |-> n, err |-> "none"]
    ELSE LET r == ValidateEvent(events[i], organization_id, p, n)
         IN  IF ~r.ok THEN [ok |-> FALSE, events |-> <<>>, n |-> r.n, err |-> r.err]
             ELSE ValidateFrom(events, i + 1, organization_id, p, r.n, Append(acc, r.event))

validate_events(events, organization_id, p, n) ==
    ValidateFrom(events, 1, organization_id, p, n, <<>>)

(***************************************************************************)
(* The conversion of the validated records to the arrow table (lines       *)
(* 275-293): every schema column in schema order, a column or a cell that  *)
(* is missing read as null, columns outside the schema dropped.            *)
(***************************************************************************)
ArrowCell(v) == IF IsNull(v) THEN None ELSE v

ToRow(event) == [c \in Columns |-> ArrowCell(Get(event, c))]

ToRows(validated) == [k \in 1..Len(validated) |-> ToRow(validated[k])]

\* The arrow type a non-null cell makes its column take.
ArrowType(v) ==
    IF v.t \in {"str", "uuid"} THEN "string"
    ELSE IF v.t \in {"int", "float"} THEN "number"
    ELSE v.t

\* pa.Table.from_pandas raises on a column whose cells are of several types.
MixedColumn(rows) ==
    \E c \in Columns : \E j, k \in 1..Len(rows) :
        /\ rows[j][c] # None
        /\ rows[k][c] # None
        /\ ArrowType(rows[j][c]) # ArrowType(rows[k][c])

\* Line 298: the number of batches, as the loader computes it.
NumBatches(total_rows, batch_size) == (total_rows + batch_size - 1) \div batch_size

Min(a, b) == IF a < b THEN a ELSE b

\* A batch end that stops one row short of the end of the table.
BatchEndShort(i, batch_size, total_rows) == Min(i + batch_size, total_rows - 1)

\* Lines 304-305: the slice of the arrow table that starts at offset i.
BatchEnd(i, batch_size, total_rows) == Min(i + batch_size, total_rows)

Slice(rows, i, batch_end) == SubSeq(rows, i + 1, batch_end)

(***************************************************************************)
(* The catalog's table: absent, or a list of snapshots, each the rows one  *)
(* append added and the summary of the table's totals after it.            *)
(***************************************************************************)
Summary(records, files, bytes) ==
    [k \in {"total-records", "total-data-files", "total-file-size-bytes"} |->
        CASE k = "total-records" -> records
          [] k = "total-data-files" -> files
          [] OTHER -> bytes]

AbsentTable == [exists |-> FALSE, snapshots |-> <<>>]
EmptyTable == [exists |-> TRUE, snapshots |-> <<>>]

PriorRow ==
    [c \in Columns |->
        IF c \in RequiredFields
        THEN (IF c = "event_value" THEN PyFloat("5")
              ELSE IF c = "timestamp" THEN Timestamp("2024-01-01T00:00:00")
              ELSE Str("prior"))
        ELSE None]

PriorTable ==
    [exists |-> TRUE,
     snapshots |-> << [added |-> <<PriorRow>>,
                       summary |-> Summary(1, 1, 700),
                       timestamp_ms |-> 1] >>]

\* table.current_snapshot(): the latest snapshot, or none.
HasSnapshot(t) == Len(t.snapshots) > 0
current_snapshot(t) == t.snapshots[Len(t.snapshots)]

SummaryGet(summary, k, default) == IF k \in DOMAIN summary THEN summary[k] ELSE default

\* The effect of a successful table.append(batch): one new snapshot.
Appended(t, batch) ==
    LET prev == IF HasSnapshot(t) THEN current_snapshot(t).summary ELSE Summary(0, 0, 0)
    IN  [t EXCEPT !.snapshots =
            Append(@, [added |-> batch,
                       summary |-> Summary(prev["total-records"] + Len(batch),
                                           prev["total-data-files"] + 1,
                                           prev["total-file-size-bytes"] + 700 * Len(batch)),
                       timestamp_ms |-> Len(t.snapshots) + 1])]

\* Every row the table holds, in commit order.
RECURSIVE RowsOf(_)
RowsOf(snapshots) ==
    IF snapshots = <<>> THEN <<>>
    ELSE RowsOf(SubSeq(snapshots, 1, Len(snapshots) - 1)) \o snapshots[Len(snapshots)].added

(***************************************************************************)
(* query_table_stats (lines 315-348) as a function of the table it loads.  *)
(***************************************************************************)
RECURSIVE Pow1024(_)
Pow1024(k) == IF k = 0 THEN 1 ELSE 1024 * Pow1024(k - 1)

Units == <<"B", "KB", "MB", "GB", "TB">>

\* f"{size_bytes:.2f} {unit}" for size_bytes = bytes / 1024^k.
FormatSize(bytes, k) ==
    LET h == (200 * bytes + Pow1024(k)) \div (2 * Pow1024(k))
        frac == h % 100
    IN  ToString(h \div 100) \o "." \o (IF frac < 10 THEN "0" ELSE "") \o ToString(frac)
            \o " " \o Units[k + 1]

\* Lines 338-343: the first unit in which the size is below 1024, if any.
RECURSIVE UnitIndex(_, _)
UnitIndex(bytes, k) ==
    IF k >= Len(Units) THEN -1
    ELSE IF bytes < 1024 * Pow1024(k) THEN k
    ELSE UnitIndex(bytes, k + 1)

EmptyStats == [k \in {} |-> None]

\* Stats that read the summary of a snapshot that is not there: the exception
\* is caught and the result is empty.
TableStatsUnguarded(t) ==
    IF HasSnapshot(t)
    THEN [k \in {"row_count", "snapshot_count"} |->
            IF k = "row_count"
            THEN PyInt(ToString(current_snapshot(t).summary["total-records"]))
            ELSE PyInt(ToString(Len(t.snapshots)))]
    ELSE EmptyStats

TableStats(t) ==
    LET cur == IF HasSnapshot(t) THEN current_snapshot(t) ELSE [summary |-> <<>>, timestamp_ms |-> 0]
        num(k) == IF HasSnapshot(t) THEN SummaryGet(cur.summary, k, 0) ELSE 0
        bytes == num("total-file-size-bytes")
        u == UnitIndex(bytes, 0)
        keys == {"table_name", "row_count", "file_count", "total_size_bytes",
                 "snapshot_count", "last_updated"} \cup (IF u >= 0 THEN {"total_size"} ELSE {})
    IN  [k \in keys |->
            CASE k = "table_name" -> Str("default.conversion_events")
              [] k = "row_count" -> PyInt(ToString(num("total-records")))
              [] k = "file_count" -> PyInt(ToString(num("total-data-files")))
              [] k = "total_size_bytes" -> PyInt(ToString(bytes))
              [] k = "snapshot_count" -> PyInt(ToString(Len(t.snapshots)))
              [] k = "last_updated" ->
                    IF HasSnapshot(t) THEN Val("isoformat", ToString(cur.timestamp_ms)) ELSE None
              [] OTHER -> Str(FormatSize(bytes, u))]

(***************************************************************************)
(* The state: the catalog, and each loader process running main().         *)
(***************************************************************************)
VARIABLES
    table,              \* the catalog's table default.conversion_events
    calls,              \* every catalog call issued, in order, with its outcome
    args,               \* the command line: input file, org id, dry_run, stats
    config,             \* the resolved configuration (batch_size)
    pc,                 \* where each process is in main()
    events,             \* bulk_load: the records read from the file
    validated_events,   \* bulk_load: the result of validate_events
    uuid_calls,         \* the number of uuid4() calls made
    tables,             \* the tables create_or_get_table returned, in order
    arrow_table,        \* bulk_load: the rows converted for the table
    offset,             \* bulk_load: the loop variable i
    count,              \* what bulk_load returned (-1: nothing)
    stats,              \* what query_table_stats returned
    exit_code,          \* what main returned (-1: still running)
    error,              \* the exception main caught
    table0,             \* the table as it was when the run started
    environ,            \* the environment variables of the process
    config_file,        \* the file --config names
    connections,        \* the connections _setup_connections attempted
    run                 \* the number of the run of main with these arguments

vars == <<table, calls, args, config, pc, events, validated_events, uuid_calls,
          tables, arrow_table, offset, count, stats, exit_code, error, table0,
          environ, config_file, connections, run>>

\* What no step of bulk_load or of create_or_get_table changes.
process_vars == <<environ, config_file, connections, run>>

Call(p, op, outcome, i, n) == [p |-> p, op |-> op, outcome |-> outcome, i |-> i, n |-> n]

\* main's except clause (lines 421-423): the error is logged, main returns 1.
Fail(p, e) ==
    /\ pc' = [pc EXCEPT ![p] = "done"]
    /\ exit_code' = [exit_code EXCEPT ![p] = 1]
    /\ error' = [error EXCEPT ![p] = e]

(***************************************************************************)
(* EventBulkLoader.__init__ (lines 36-99): the configuration resolved from *)
(* the file and the environment, then the connections.                     *)
(***************************************************************************)
DefaultBatchSize == 10000

\* Line 54-61: the environment variable of each configuration key.
env_mapping ==
    [DATALAKE_CATALOG_URI |-> "catalog_uri",
     DATALAKE_WAREHOUSE_NAME |-> "warehouse_name",
     CLOUDFLARE_API_TOKEN |-> "api_token",
     CLOUDFLARE_ACCOUNT_ID |-> "account_id",
     R2_S3_API_URL |-> "s3_endpoint",
     R2_BUCKET |-> "bucket_name"]

required_fields == <<"catalog_uri", "warehouse_name", "api_token">>

\* The config file: not there, or the document yaml.safe_load makes of it: a
\* mapping, or None for a file with nothing in it.
NoConfigFile == [exists |-> FALSE, mapping |-> FALSE, doc |-> <<>>]
EmptyConfigFile == [exists |-> TRUE, mapping |-> FALSE, doc |-> <<>>]
ConfigMapping(doc) == [exists |-> TRUE, mapping |-> TRUE, doc |-> doc]

\* Lines 63-65: the environment values, where set and not empty, over the
\* file's values.
Override(doc, env) ==
    LET set == {k \in DOMAIN env : env[k] # ""}
        keys == {env_mapping[k] : k \in set}
    IN  [c \in DOMAIN doc \cup keys |->
            IF c \in keys
            THEN Str(env[CHOOSE k \in set : env_mapping[k] = c])
            ELSE doc[c]]

\* Line 69: the required fields that are not keys of the config, in order.
MissingFields(doc) == SelectSeq(required_fields, LAMBDA f : f \notin DOMAIN doc)

\* ', '.join(fields)
RECURSIVE Join(_)
Join(fields) ==
    IF Len(fields) = 0 THEN ""
    ELSE IF Len(fields) = 1 THEN fields[1]
    ELSE fields[1] \o ", " \o Join(Tail(fields))

MissingMessage(fields) == "Missing required configuration: " \o Join(fields)

\* Lines 74-76: the defaults.
WithDefaults(doc) ==
    LET keys == DOMAIN doc \cup {"batch_size", "namespace", "table_name"}
    IN  [c \in keys |->
            IF c \in DOMAIN doc THEN doc[c]
            ELSE IF c = "batch_size" THEN DefaultBatchSize
            ELSE IF c = "namespace" THEN Str("default")
            ELSE Str("conversion_events")]

\* A client the loader constructed, or tried to (lines 83-99).
Connection(client, outcome) == [client |-> client, outcome |-> outcome]

\* _load_config: the config, or the exception.  A file that yields None is
\* no dict: the first assignment, or the test `f not in config`, raises
\* TypeError.
load_config(file, env) ==
    IF file.exists /\ ~file.mapping
    THEN [ok |-> FALSE, config |-> <<>>, err |-> "TypeError"]
    ELSE LET merged == Override(IF file.exists THEN file.doc ELSE <<>>, env)
             missing == MissingFields(merged)
         IN  IF Len(missing) > 0
             THEN [ok |-> FALSE, config |-> <<>>, err |-> MissingMessage(missing)]
             ELSE [ok |-> TRUE, config |-> WithDefaults(merged), err |-> "none"]

\* An environment that has the three required settings.
FullEnv ==
    [DATALAKE_CATALOG_URI |-> "https://catalog", DATALAKE_WAREHOUSE_NAME |-> "wh",
     CLOUDFLARE_API_TOKEN |-> "token"]

\* The config file that sets batch_size alone.
BatchSizeFile(b) == ConfigMapping([batch_size |-> b])

(***************************************************************************)
(* The inputs of a run.                                                    *)
(***************************************************************************)
IsoText == "2024-01-01T00:00:00"

\* A complete record that names another organization and has a column the
\* schema does not have.
FullEvent ==
    [id |-> Str("e1"), organization_id |-> Str("evil"), event_id |-> Str("x1"),
     timestamp |-> Str(IsoText), event_type |-> Str("purchase"),
     event_value |-> PyInt("5"), currency |-> Str("EUR"), user_id |-> Str("u1"),
     session_id |-> Str("s1"), utm_source |-> Str("google"), foo |-> Str("bar")]

\* A record with no field at all.
BareEvent == [k \in {} |-> None]

\* An empty id, a null organization and currency, a numeric text as value.
NullCurrencyEvent ==
    [id |-> Str(""), organization_id |-> None, currency |-> None, event_value |-> Str("7")]

\* A value float() rejects.
BadValueEvent == [id |-> Str("e2"), event_value |-> Str("abc")]

\* A numeric id and a null timestamp.
NumericIdEvent == [id |-> PyInt("5"), timestamp |-> None]

SampleEvents == {FullEvent, BareEvent, NullCurrencyEvent, BadValueEvent, NumericIdEvent}

SeqsUpTo(S, n) == UNION {[1..k -> S] : k \in 0..n}

OrgId == Str("acme")

NoFile == [exists |-> FALSE, records |-> <<>>]
File(records) == [exists |-> TRUE, records |-> records]

InputFiles == {NoFile} \cup {File(r) : r \in SeqsUpTo(SampleEvents, MaxRecords)}

ArgSets ==
    [input_file : InputFiles, organization_id : {OrgId},
     dry_run : BOOLEAN, stats : BOOLEAN]

ConfigFiles == {BatchSizeFile(b) : b \in 1..MaxBatch}

\* The process once the loader is constructed: the configuration resolved,
\* the catalog connected.
Constructed ==
    /\ environ = [p \in Procs |-> FullEnv]
    /\ config = [p \in Procs |-> load_config(config_file[p], environ[p]).config]
    /\ connections = [p \in Procs |-> <<Connection("catalog", "ok")>>]
    /\ run = [p \in Procs |-> 1]

InitialTables == {AbsentTable, EmptyTable, PriorTable}

\* The state once EventBulkLoader is constructed and main is about to call
\* bulk_load.
InitLoader(startpc) ==
    /\ calls = <<>>
    /\ pc = [p \in Procs |-> startpc]
    /\ events = [p \in Procs |-> IF startpc \in {"start", "load_file"} THEN <<>>
                                  ELSE args[p].input_file.records]
    /\ validated_events = [p \in Procs |-> <<>>]
    /\ uuid_calls = [p \in Procs |-> 0]
    /\ tables = [p \in Procs |-> <<>>]
    /\ arrow_table = [p \in Procs |-> <<>>]
    /\ offset = [p \in Procs |-> 0]
    /\ count = [p \in Procs |-> -1]
    /\ stats = [p \in Procs |-> EmptyStats]
    /\ exit_code = [p \in Procs |-> -1]
    /\ error = [p \in Procs |-> "none"]

Init ==
    /\ table \in InitialTables
    /\ table0 = table
    /\ args \in [Procs -> ArgSets]
    /\ config_file \in [Procs -> ConfigFiles]
    /\ Constructed
    /\ InitLoader("load_file")

(***************************************************************************)
(* bulk_load, step by step.                                                *)
(***************************************************************************)
\* Lines 257-260: the file read into a list of records, or FileNotFoundError.
LoadEventsFromFile(p) ==
    /\ pc[p] = "load_file"
    /\ IF args[p].input_file.exists
       THEN /\ events' = [events EXCEPT ![p] = args[p].input_file.records]
            /\ pc' = [pc EXCEPT ![p] = "validate"]
            /\ UNCHANGED <<exit_code, error>>
       ELSE /\ Fail(p, "FileNotFoundError")
            /\ UNCHANGED events
    /\ UNCHANGED <<table, calls, args, process_vars, config, validated_events, uuid_calls,
                   tables, arrow_table, offset, count, stats, table0>>

\* Lines 262-266: validate_events, then the dry_run branch.
ValidateEvents(p) ==
    /\ pc[p] = "validate"
    /\ LET r == validate_events(events[p], args[p].organization_id, p, uuid_calls[p])
       IN  /\ uuid_calls' = [uuid_calls EXCEPT ![p] = r.n]
           /\ IF r.ok
              THEN /\ validated_events' = [validated_events EXCEPT ![p] = r.events]
                   /\ pc' = [pc EXCEPT ![p] =
                                IF args[p].dry_run THEN "dry_run" ELSE "create_or_get_table"]
                   /\ UNCHANGED <<exit_code, error>>
              ELSE /\ Fail(p, r.err)
                   /\ UNCHANGED validated_events
    /\ UNCHANGED <<table, calls, args, process_vars, config, events, tables, arrow_table,
                   offset, count, stats, table0>>

\* Lines 267-269: the count and the first record are logged; the count is
\* returned.  validated_events[0] raises IndexError on an empty list.
DryRun(p) ==
    /\ pc[p] = "dry_run"
    /\ IF Len(validated_events[p]) = 0
       THEN /\ Fail(p, "IndexError")
            /\ UNCHANGED count
       ELSE /\ count' = [count EXCEPT ![p] = Len(validated_events[p])]
            /\ pc' = [pc EXCEPT ![p] = "returned"]
            /\ UNCHANGED <<exit_code, error>>
    /\ UNCHANGED <<table, calls, args, process_vars, config, events, validated_events, uuid_calls,
                   tables, arrow_table, offset, stats, table0>>

(***************************************************************************)
(* What the catalog can answer.  A call can always fail for a reason of    *)
(* its own (network, permission): "error".                                 *)
(***************************************************************************)
LoadOutcomes(t) == IF t.exists THEN {"ok", "error"} ELSE {"not_found", "error"}
CreateOutcomes(t) == IF t.exists THEN {"already_exists", "error"} ELSE {"ok", "error"}
AppendOutcomes == {"ok", "error"}
ReadOutcomes == {"ok", "error"}

(***************************************************************************)
(* create_or_get_table (lines 145-176).                                    *)
(***************************************************************************)
\* A load_table whose answer is never used: the table is created every time.
LoadTableAlwaysCreates(p) ==
    /\ pc[p] = "create_or_get_table"
    /\ \E outcome \in LoadOutcomes(table) :
          calls' = Append(calls, Call(p, "load_table", outcome, 0, 0))
    /\ pc' = [pc EXCEPT ![p] = "create_table"]
    /\ UNCHANGED <<table, args, process_vars, config, events, validated_events, uuid_calls, tables,
                   arrow_table, offset, count, stats, exit_code, error, table0>>

\* Lines 149-154: load_table; the table is returned, or any exception at all
\* sends the call to the except branch.
LoadTable(p) ==
    /\ pc[p] = "create_or_get_table"
    /\ \E outcome \in LoadOutcomes(table) :
          /\ calls' = Append(calls, Call(p, "load_table", outcome, 0, 0))
          /\ IF outcome = "ok"
             THEN /\ tables' = [tables EXCEPT ![p] = Append(@, table)]
                  /\ pc' = [pc EXCEPT ![p] = "provisioned"]
             ELSE /\ pc' = [pc EXCEPT ![p] = "create_table"]
                  /\ UNCHANGED tables
    /\ UNCHANGED <<table, args, process_vars, config, events, validated_events, uuid_calls,
                   arrow_table, offset, count, stats, exit_code, error, table0>>

\* A create_table that, told the table already exists, loads it and goes on.
CreateTableTolerant(p) ==
    /\ pc[p] = "create_table"
    /\ \E outcome \in CreateOutcomes(table) :
          /\ calls' = Append(calls, Call(p, "create_table", outcome, 0, 0))
          /\ IF outcome = "ok"
             THEN /\ table' = EmptyTable
                  /\ tables' = [tables EXCEPT ![p] = Append(@, EmptyTable)]
                  /\ pc' = [pc EXCEPT ![p] = "provisioned"]
                  /\ UNCHANGED <<exit_code, error>>
             ELSE IF outcome = "already_exists"
             THEN /\ tables' = [tables EXCEPT ![p] = Append(@, table)]
                  /\ pc' = [pc EXCEPT ![p] = "provisioned"]
                  /\ UNCHANGED <<table, exit_code, error>>
             ELSE /\ Fail(p, "CreateTableError")
                  /\ UNCHANGED <<table, tables>>
    /\ UNCHANGED <<args, process_vars, config, events, validated_events, uuid_calls,
                   arrow_table, offset, count, stats, table0>>

\* Lines 155-176: create_table; its exception leaves create_or_get_table and
\* bulk_load and reaches main.
CreateTable(p) ==
    /\ pc[p] = "create_table"
    /\ \E outcome \in CreateOutcomes(table) :
          /\ calls' = Append(calls, Call(p, "create_table", outcome, 0, 0))
          /\ IF outcome = "ok"
             THEN /\ table' = EmptyTable
                  /\ tables' = [tables EXCEPT ![p] = Append(@, EmptyTable)]
                  /\ pc' = [pc EXCEPT ![p] = "provisioned"]
                  /\ UNCHANGED <<exit_code, error>>
             ELSE /\ Fail(p, "CreateTableError")
                  /\ UNCHANGED <<table, tables>>
    /\ UNCHANGED <<args, process_vars, config, events, validated_events, uuid_calls,
                   arrow_table, offset, count, stats, table0>>

(***************************************************************************)
(* bulk_load after provisioning (lines 274-313).                           *)
(***************************************************************************)
\* A row without the values the loader generated for it (uuid4).
Mask(row) == [c \in DOMAIN row |-> IF row[c].t = "uuid" THEN Uuid(0, 0) ELSE row[c]]

\* A conversion that leaves out the rows the table already has.
PrepareBatchesSkipping(p) ==
    /\ pc[p] = "provisioned"
    /\ LET present == {Mask(RowsOf(table.snapshots)[k]) :
                          k \in 1..Len(RowsOf(table.snapshots))}
           rows == SelectSeq(ToRows(validated_events[p]), LAMBDA r : Mask(r) \notin present)
       IN  IF MixedColumn(rows)
           THEN /\ Fail(p, "ArrowTypeError")
                /\ UNCHANGED <<arrow_table, offset>>
           ELSE /\ arrow_table' = [arrow_table EXCEPT ![p] = rows]
                /\ offset' = [offset EXCEPT ![p] = 0]
                /\ pc' = [pc EXCEPT ![p] = "append"]
                /\ UNCHANGED <<exit_code, error>>
    /\ UNCHANGED <<table, calls, args, process_vars, config, events, validated_events, uuid_calls,
                   tables, count, stats, table0>>

\* Lines 274-300: the validated records become the arrow table.
PrepareBatches(p) ==
    /\ pc[p] = "provisioned"
    /\ LET rows == ToRows(validated_events[p])
       IN  IF MixedColumn(rows)
           THEN /\ Fail(p, "ArrowTypeError")
                /\ UNCHANGED <<arrow_table, offset>>
           ELSE /\ arrow_table' = [arrow_table EXCEPT ![p] = rows]
                /\ offset' = [offset EXCEPT ![p] = 0]
                /\ pc' = [pc EXCEPT ![p] = "append"]
                /\ UNCHANGED <<exit_code, error>>
    /\ UNCHANGED <<table, calls, args, process_vars, config, events, validated_events, uuid_calls,
                   tables, count, stats, table0>>

\* A loop that appends the whole arrow table on every pass.
AppendBatchWhole(p) ==
    /\ pc[p] = "append"
    /\ offset[p] < Len(arrow_table[p])
    /\ LET i == offset[p]
           batch_size == config[p].batch_size
       IN  \E outcome \in AppendOutcomes :
              /\ calls' = Append(calls, Call(p, "append", outcome, i, Len(arrow_table[p])))
              /\ IF outcome = "ok"
                 THEN /\ table' = Appended(table, arrow_table[p])
                      /\ offset' = [offset EXCEPT ![p] = i + batch_size]
                      /\ UNCHANGED <<pc, exit_code, error>>
                 ELSE /\ Fail(p, "CommitError")
                      /\ UNCHANGED <<table, offset>>
    /\ UNCHANGED <<args, process_vars, config, events, validated_events, uuid_calls,
                   tables, arrow_table, count, stats, table0>>

\* A loop that catches the exception of table.append and goes round again.
AppendBatchRetrying(p) ==
    /\ pc[p] = "append"
    /\ offset[p] < Len(arrow_table[p])
    /\ LET i == offset[p]
           batch_size == config[p].batch_size
           batch_end == Min(i + batch_size, Len(arrow_table[p]))
           batch == Slice(arrow_table[p], i, batch_end)
       IN  \E outcome \in AppendOutcomes :
              /\ calls' = Append(calls, Call(p, "append", outcome, i, Len(batch)))
              /\ IF outcome = "ok"
                 THEN /\ table' = Appended(table, batch)
                      /\ offset' = [offset EXCEPT ![p] = i + batch_size]
                 ELSE UNCHANGED <<table, offset>>
    /\ UNCHANGED <<args, process_vars, config, events, validated_events, uuid_calls, tables,
                   arrow_table, count, stats, table0, pc, exit_code, error>>

\* Lines 303-310: one pass of the loop: the slice at i is appended.  An
\* exception of table.append leaves the loop and bulk_load.
AppendBatch(p) ==
    /\ pc[p] = "append"
    /\ offset[p] < Len(arrow_table[p])
    /\ LET i == offset[p]
           batch_size == config[p].batch_size
           batch_end == BatchEnd(i, batch_size, Len(arrow_table[p]))
           batch == Slice(arrow_table[p], i, batch_end)
       IN  \E outcome \in AppendOutcomes :
              /\ calls' = Append(calls, Call(p, "append", outcome, i, Len(batch)))
              /\ IF outcome = "ok"
                 THEN /\ table' = Appended(table, batch)
                      /\ offset' = [offset EXCEPT ![p] = i + batch_size]
                      /\ UNCHANGED <<pc, exit_code, error>>
                 ELSE /\ Fail(p, "CommitError")
                      /\ UNCHANGED <<table, offset>>
    /\ UNCHANGED <<args, process_vars, config, events, validated_events, uuid_calls,
                   tables, arrow_table, count, stats, table0>>

\* Lines 312-313: the loop is over; bulk_load returns total_rows.
FinishLoad(p) ==
    /\ pc[p] = "append"
    /\ offset[p] >= Len(arrow_table[p])
    /\ count' = [count EXCEPT ![p] = Len(arrow_table[p])]
    /\ pc' = [pc EXCEPT ![p] = "returned"]
    /\ UNCHANGED <<table, calls, args, process_vars, config, events, validated_events, uuid_calls,
                   tables, arrow_table, offset, stats, exit_code, error, table0>>

(***************************************************************************)
(* main after bulk_load returned (lines 410-419).                          *)
(***************************************************************************)
\* What query_table_stats returns for the answers the catalog gives.
StatsResult(t, load, read) ==
    IF load = "ok" /\ read = "ok" THEN TableStats(t) ELSE EmptyStats

\* Lines 411-419 with --stats and no --dry-run: query_table_stats, whose
\* exceptions are all caught inside it, then return 0.
QueryTableStats(p) ==
    /\ pc[p] = "returned"
    /\ args[p].stats /\ ~args[p].dry_run
    /\ \E load \in LoadOutcomes(table), read \in ReadOutcomes :
          /\ calls' = Append(calls, Call(p, "stats", IF load = "ok" THEN read ELSE load, 0, 0))
          /\ stats' = [stats EXCEPT ![p] = StatsResult(table, load, read)]
    /\ pc' = [pc EXCEPT ![p] = "done"]
    /\ exit_code' = [exit_code EXCEPT ![p] = 0]
    /\ UNCHANGED <<table, args, process_vars, config, events, validated_events, uuid_calls,
                   tables, arrow_table, offset, count, error, table0>>

\* Lines 411, 419 otherwise: return 0.
ReturnZero(p) ==
    /\ pc[p] = "returned"
    /\ ~(args[p].stats /\ ~args[p].dry_run)
    /\ pc' = [pc EXCEPT ![p] = "done"]
    /\ exit_code' = [exit_code EXCEPT ![p] = 0]
    /\ UNCHANGED <<table, calls, args, process_vars, config, events, validated_events, uuid_calls,
                   tables, arrow_table, offset, count, stats, error, table0>>

Next ==
    \E p \in Procs :
        \/ LoadEventsFromFile(p)
        \/ ValidateEvents(p)
        \/ DryRun(p)
        \/ LoadTable(p)
        \/ CreateTable(p)
        \/ PrepareBatches(p)
        \/ AppendBatch(p)
        \/ FinishLoad(p)
        \/ QueryTableStats(p)
        \/ ReturnZero(p)

Spec == Init /\ [][Next]_vars

(***************************************************************************)
(* validate_events on its own: one record, every combination of an absent, *)
(* a null and a given value in its required fields.                        *)
(***************************************************************************)
Absent == Val("absent", "")

Dict(choice) == [k \in {f \in DOMAIN choice : choice[f] # Absent} |-> choice[k]]

RecordChoices ==
    { [id |-> a, organization_id |-> b, event_id |-> c, timestamp |-> d,
       event_type |-> e, event_value |-> f, currency |-> g, user_id |-> h,
       session_id |-> i] :
        a \in {Absent, None, NaN, Str(""), PyInt("0"), Str("e1")},
        b \in {Absent, Str("evil")},
        c \in {Absent, None, Str("x1")},
        d \in {Absent, None, Str(IsoText), Str("yesterday")},
        e \in {Absent, None, Str("purchase")},
        f \in {Absent, None, NaN, PyInt("5"), Str("7"), Str("abc")},
        g \in {Absent, None, Str("EUR")},
        h \in {Absent, None, Str("u1")},
        i \in {Absent, Str("s1")} }

InitValidate ==
    /\ table = AbsentTable
    /\ table0 = table
    /\ \E c \in RecordChoices :
          args = [p \in Procs |->
                    [input_file |-> File(<<Dict(c)>>), organization_id |-> OrgId,
                     dry_run |-> FALSE, stats |-> FALSE]]
    /\ config_file = [p \in Procs |-> BatchSizeFile(1)]
    /\ Constructed
    /\ InitLoader("validate")

NextValidate == \E p \in Procs : ValidateEvents(p)

SpecValidate == InitValidate /\ [][NextValidate]_vars

(***************************************************************************)
(* create_or_get_table on its own, called again after it returned.         *)
(***************************************************************************)
\* The number of times p has called create_or_get_table.
ProvisionCalls(p) ==
    Len(SelectSeq(calls, LAMBDA c : c.p = p /\ c.op = "load_table"))

\* A caller of create_or_get_table calls it once more, after it returned or
\* after it raised.
CallAgain(p) ==
    /\ pc[p] \in {"provisioned", "done"}
    /\ ProvisionCalls(p) < MaxProvisionCalls
    /\ pc' = [pc EXCEPT ![p] = "create_or_get_table"]
    /\ exit_code' = [exit_code EXCEPT ![p] = -1]
    /\ error' = [error EXCEPT ![p] = "none"]
    /\ UNCHANGED <<table, calls, args, process_vars, config, events, validated_events, uuid_calls,
                   tables, arrow_table, offset, count, stats, table0>>

InitProvision ==
    /\ table \in InitialTables
    /\ table0 = table
    /\ args = [p \in Procs |->
                 [input_file |-> File(<<>>), organization_id |-> OrgId,
                  dry_run |-> FALSE, stats |-> FALSE]]
    /\ config_file = [p \in Procs |-> BatchSizeFile(1)]
    /\ Constructed
    /\ InitLoader("create_or_get_table")

NextProvision ==
    \E p \in Procs :
        \/ LoadTable(p)
        \/ CreateTable(p)
        \/ CallAgain(p)

SpecProvision == InitProvision /\ [][NextProvision]_vars

(***************************************************************************)
(* What the claims speak of.                                               *)
(***************************************************************************)
CallsOf(p, op) == SelectSeq(calls, LAMBDA c : c.p = p /\ c.op = op)

AppendsOf(p) == CallsOf(p, "append")

\* The snapshots the table gained since the run started, and whether the
\* ones it had are still there.
NewSnapshots == SubSeq(table.snapshots, Len(table0.snapshots) + 1, Len(table.snapshots))

PriorSnapshotsKept ==
    /\ Len(table.snapshots) >= Len(table0.snapshots)
    /\ SubSeq(table.snapshots, 1, Len(table0.snapshots)) = table0.snapshots

CeilDiv(n, b) == IF n % b = 0 THEN n \div b ELSE (n \div b) + 1

\* The validated records as the rows the table is to receive.
ValidatedRows(p) == ToRows(validated_events[p])

Loaded(p) == ~args[p].dry_run /\ count[p] # -1

\* C1: a bulk_load that is not a dry run and meets no failure issues
\* ceil(N / batch_size) appends, one after the other in slice order (slice k
\* starts at k * batch_size and is issued only once every slice before it was
\* appended), each of at most batch_size rows, and the appended slices, in
\* commit order, are the validated records, each once and in their order.
C1_BatchedAppends ==
    \A p \in Procs :
        LET a == AppendsOf(p)
            B == config[p].batch_size
            rows == ValidatedRows(p)
            N == Len(rows)
        IN  /\ \A k \in 1..Len(a) :
                  /\ a[k].i = (k - 1) * B
                  /\ a[k].n >= 1
                  /\ a[k].n <= B
                  /\ k < Len(a) => a[k].outcome = "ok"
            /\ Loaded(p) =>
                  /\ count[p] = N
                  /\ Len(a) = CeilDiv(N, B)
                  /\ \A k \in 1..Len(a) : a[k].outcome = "ok"
                  /\ PriorSnapshotsKept
                  /\ Len(NewSnapshots) = Len(a)
                  /\ \A k \in 1..Len(NewSnapshots) :
                        NewSnapshots[k].added = SubSeq(rows, (k - 1) * B + 1, Min(k * B, N))
                  /\ RowsOf(NewSnapshots) = rows

\* C1's case: three records in batches of two, loaded in two appends.
C1_Witness ==
    \E p \in Procs :
        /\ Loaded(p)
        /\ count[p] = 3
        /\ config[p].batch_size = 2
        /\ Len(AppendsOf(p)) = 2
        /\ AppendsOf(p)[2].n = 1

\* C2: when table.append fails on slice k, slices 0..k-1 stay committed, the
\* failed slice is not tried again, no later slice is appended, the run ends
\* in error without a count, and the table holds, of this run, exactly the
\* rows of slices 0..k-1.
C2_AppendFailureStops ==
    \A p \in Procs :
        LET a == AppendsOf(p)
            B == config[p].batch_size
            rows == ValidatedRows(p)
        IN  (\E j \in 1..Len(a) : a[j].outcome = "error") =>
               /\ a[Len(a)].outcome = "error"
               /\ \A j \in 1..(Len(a) - 1) : a[j].outcome = "ok"
               /\ pc[p] = "done"
               /\ exit_code[p] = 1
               /\ error[p] = "CommitError"
               /\ count[p] = -1
               /\ CallsOf(p, "stats") = <<>>
               /\ table.exists
               /\ PriorSnapshotsKept
               /\ Len(NewSnapshots) = Len(a) - 1
               /\ RowsOf(NewSnapshots) = SubSeq(rows, 1, (Len(a) - 1) * B)

\* C2's case: three records one by one, the second append fails.
C2_Witness ==
    \E p \in Procs :
        /\ Len(ValidatedRows(p)) = 3
        /\ config[p].batch_size = 1
        /\ Len(AppendsOf(p)) = 2
        /\ AppendsOf(p)[2].outcome = "error"
        /\ Len(NewSnapshots) = 1
        /\ pc[p] = "done"

\* C3 as claimed: a dry run of N records that pass validation returns N,
\* for every N >= 0, and issues no catalog call and leaves the table as it was.
C3_DryRunReturnsCount ==
    \A p \in Procs :
        (/\ args[p].dry_run
         /\ pc[p] = "done"
         /\ error[p] \notin {"FileNotFoundError", "ValueError", "TypeError"}) =>
            /\ count[p] = Len(args[p].input_file.records)
            /\ exit_code[p] = 0
            /\ calls = <<>>
            /\ table = table0

\* C4: with the table absent at first and no catalog call failing for a
\* reason of its own, create_or_get_table called again and again issues one
\* create_table in all, and every call returns the table the first created.
C4_ProvisionTwice ==
    \A p \in Procs :
        (table0 = AbsentTable /\ \A k \in 1..Len(calls) : calls[k].outcome # "error") =>
            LET creates == CallsOf(p, "create_table")
                loads == CallsOf(p, "load_table")
            IN  /\ Len(creates) <= 1
                /\ \A k \in 1..Len(creates) : creates[k].outcome = "ok"
                /\ \A k \in 2..Len(loads) : loads[k].outcome = "ok"
                /\ Len(tables[p]) >= 1 =>
                      /\ Len(creates) = 1
                      /\ table = EmptyTable
                      /\ \A k \in 1..Len(tables[p]) : tables[p][k] = EmptyTable

\* C4's case: the second call has returned.
C4_Witness ==
    \E p \in Procs :
        /\ table0 = AbsentTable
        /\ \A k \in 1..Len(calls) : calls[k].outcome # "error"
        /\ Len(tables[p]) = 2
        /\ tables[p][2] = tables[p][1]
        /\ pc[p] = "provisioned"

\* C5 as claimed: every row this run committed has a non-null value in each
\* of the nine required fields.
C5_CommittedRequiredPopulated ==
    \A k \in 1..Len(NewSnapshots) :
        \A j \in 1..Len(NewSnapshots[k].added) :
            \A f \in RequiredFields : NewSnapshots[k].added[j][f] # None

(***************************************************************************)
(* validate_events, record by record: the first record of the input and    *)
(* what it became.                                                         *)
(***************************************************************************)
DefaultedFields ==
    {"id", "event_id", "event_type", "event_value", "currency", "user_id", "session_id"}

SetDefaultFields == {"event_id", "event_type", "currency", "user_id", "session_id"}

\* The default the data model gives a field; the three ids are generated.
IsDefault(f, v) ==
    CASE f = "event_type" -> v = Str("conversion")
      [] f = "event_value" -> v = PyFloat("0")
      [] f = "currency" -> v = Str("USD")
      [] f = "user_id" -> v = Str("unknown")
      [] OTHER -> v.t = "uuid"

\* The value of the input as the output keeps it: event_value as a float.
Kept(f, v) == IF f = "event_value" THEN PyFloat(v.v) ELSE v

Validated(p) == pc[p] \notin {"load_file", "validate"} /\ error[p] = "none"

InputRecord(p) == args[p].input_file.records[1]
OutputRecord(p) == validated_events[p][1]

\* C6 as claimed: each of the seven fields that is missing gets its default,
\* and a value present in the input is never replaced (event_value apart,
\* which is coerced).
C6_DefaultsNeverOverwrite ==
    \A p \in Procs :
        (Validated(p) /\ Len(validated_events[p]) >= 1) =>
            \A f \in DefaultedFields :
                LET e == InputRecord(p)
                    out == OutputRecord(p)
                IN  /\ ~Has(e, f) => IsDefault(f, out[f])
                    /\ (Has(e, f) /\ ~IsNull(e[f])) => out[f] = Kept(f, e[f])

\* The ids `not event.get('id')` takes for missing.
EmptyIds == {None, Str(""), PyInt("0"), PyFloat("0")}

\* C6 as amended: each of the seven fields whose key is absent gets its
\* default; a present event_id, event_type, currency, user_id or session_id is
\* kept as it is, a null too; a present event_value is kept as a float; a
\* present id is kept unless it is null, the empty string or zero, and then a
\* generated id takes its place.  The ids generated for one record differ.
C6_DefaultsAmended ==
    \A p \in Procs :
        (Validated(p) /\ Len(validated_events[p]) >= 1) =>
            LET e == InputRecord(p)
                out == OutputRecord(p)
            IN  /\ \A f \in DefaultedFields : ~Has(e, f) => IsDefault(f, out[f])
                /\ \A f \in SetDefaultFields : Has(e, f) => out[f] = e[f]
                /\ Has(e, "event_value") => out["event_value"] = PyFloat(e["event_value"].v)
                /\ out["event_value"].t = "float"
                /\ Has(e, "id") =>
                      IF e["id"] \in EmptyIds THEN out["id"].t = "uuid" ELSE out["id"] = e["id"]
                /\ \A f, g \in {"id", "event_id", "session_id"} :
                      (f # g /\ out[f].t = "uuid" /\ out[g].t = "uuid") => out[f] # out[g]

\* C6's case: an empty id replaced, an absent currency defaulted, a present
\* event type kept.
C6_Witness ==
    \E p \in Procs :
        /\ Validated(p)
        /\ Len(validated_events[p]) = 1
        /\ Has(InputRecord(p), "id")
        /\ InputRecord(p)["id"] = Str("")
        /\ OutputRecord(p)["id"].t = "uuid"
        /\ ~Has(InputRecord(p), "currency")
        /\ OutputRecord(p)["currency"] = Str("USD")
        /\ Has(InputRecord(p), "event_type")
        /\ OutputRecord(p)["event_type"] = Str("purchase")

\* C7: every validated record carries the caller's organization id, whatever
\* the input had in that field, and so does every row the run committed.
C7_OrganizationIsCallers ==
    \A p \in Procs :
        /\ \A k \in 1..Len(validated_events[p]) :
              validated_events[p][k]["organization_id"] = args[p].organization_id
        /\ \A k \in 1..Len(NewSnapshots) :
              \A j \in 1..Len(NewSnapshots[k].added) :
                  NewSnapshots[k].added[j]["organization_id"] = args[p].organization_id

\* C7's case: a record that named another organization has been committed.
C7_Witness ==
    \E p \in Procs :
        /\ \E k \in 1..Len(args[p].input_file.records) :
              /\ Has(args[p].input_file.records[k], "organization_id")
              /\ args[p].input_file.records[k]["organization_id"] = Str("evil")
        /\ \E k \in 1..Len(NewSnapshots) :
              \E j \in 1..Len(NewSnapshots[k].added) :
                  /\ NewSnapshots[k].added[j]["id"] = Str("e1")
                  /\ NewSnapshots[k].added[j]["organization_id"] = OrgId

\* A value no number can be made of.
Unconvertible(v) == v.t \notin {"int", "float"} /\ ~(v.t = "str" /\ v.v \in {"0", "5", "7", "nan"})

HasBadValue(records) ==
    \E k \in 1..Len(records) :
        Has(records[k], "event_value") /\ Unconvertible(records[k]["event_value"])

\* C8: when a record of the input has an event_value that is no number, the
\* load fails in validation, wherever the record stands: nothing is accepted,
\* no catalog call is issued, the table is as it was, main returns 1.
C8_BadValueFailsAll ==
    \A p \in Procs :
        (args[p].input_file.exists /\ HasBadValue(args[p].input_file.records)) =>
            /\ validated_events[p] = <<>>
            /\ count[p] = -1
            /\ calls = <<>>
            /\ table = table0
            /\ pc[p] \in {"load_file", "validate", "done"}
            /\ pc[p] = "done" => (exit_code[p] = 1 /\ error[p] \in {"ValueError", "TypeError"})

\* C8's case: the bad record is the last of three, after two good ones.
C8_Witness ==
    \E p \in Procs :
        /\ args[p].input_file.exists
        /\ Len(args[p].input_file.records) = 3
        /\ ~HasBadValue(SubSeq(args[p].input_file.records, 1, 2))
        /\ args[p].input_file.records[3] = BadValueEvent
        /\ pc[p] = "done"
        /\ error[p] = "ValueError"

\* C9 as claimed: a load_table failure that is not "not found" ends
\* create_or_get_table in error, and create_table is issued only for a table
\* that is absent.
C9_LoadErrorIsFatal ==
    \A p \in Procs :
        /\ (\E k \in 1..Len(calls) :
                calls[k].p = p /\ calls[k].op = "load_table" /\ calls[k].outcome = "error") =>
              /\ CallsOf(p, "create_table") = <<>>
              /\ pc[p] = "done"
              /\ exit_code[p] = 1
        /\ \A k \in 1..Len(calls) :
              (calls[k].p = p /\ calls[k].op = "create_table") =>
                  calls[k].outcome # "already_exists"

\* C10: the step of main that runs query_table_stats leaves the table as it
\* is and main returns 0 after it; the result is empty when the load or a
\* metadata read failed, has zero counts and no last_updated when the table
\* has no snapshot, and else has the latest snapshot's totals and the number
\* of snapshots.
C10_StatsNeverFail ==
    [][\A p \in Procs :
          (pc[p] = "returned" /\ pc'[p] = "done" /\ calls' # calls) =>
             LET c == calls'[Len(calls')]
                 st == stats'[p]
                 n(k) == PyInt(ToString(k))
             IN  /\ table' = table
                 /\ c.op = "stats"
                 /\ exit_code'[p] = 0
                 /\ error'[p] = "none"
                 /\ count'[p] = count[p]
                 /\ IF c.outcome # "ok" THEN st = EmptyStats
                    ELSE /\ {"table_name", "row_count", "file_count", "total_size_bytes",
                             "snapshot_count", "last_updated"} \subseteq DOMAIN st
                         /\ st["snapshot_count"] = n(Len(table.snapshots))
                         /\ IF table.snapshots = <<>>
                            THEN /\ st["row_count"] = n(0)
                                 /\ st["file_count"] = n(0)
                                 /\ st["total_size_bytes"] = n(0)
                                 /\ st["last_updated"] = None
                            ELSE LET last == table.snapshots[Len(table.snapshots)]
                                 IN  /\ st["row_count"] = n(last.summary["total-records"])
                                     /\ st["file_count"] = n(last.summary["total-data-files"])
                                     /\ st["total_size_bytes"] =
                                            n(last.summary["total-file-size-bytes"])
                                     /\ st["last_updated"] =
                                            Val("isoformat", ToString(last.timestamp_ms))
      ]_vars

\* C10's case: stats of a table that has no snapshot.
C10_Witness ==
    \E p \in Procs :
        /\ pc[p] = "done"
        /\ CallsOf(p, "stats") # <<>>
        /\ CallsOf(p, "stats")[1].outcome = "ok"
        /\ table.snapshots = <<>>
        /\ stats[p] # EmptyStats
        /\ stats[p]["row_count"] = PyInt("0")
        /\ stats[p]["last_updated"] = None

(***************************************************************************)
(* A load into a table that has no rows yet, of up to MaxScenarioRecords   *)
(* records that validate.                                                  *)
(***************************************************************************)
ScenarioEvents == {FullEvent, BareEvent}

ScenarioFiles == {NoFile} \cup {File(r) : r \in SeqsUpTo(ScenarioEvents, MaxScenarioRecords)}

InitLoad ==
    /\ table \in {AbsentTable, EmptyTable}
    /\ table0 = table
    /\ args \in [Procs -> [input_file : ScenarioFiles, organization_id : {OrgId},
                           dry_run : BOOLEAN, stats : BOOLEAN]]
    /\ config_file \in [Procs -> ConfigFiles]
    /\ Constructed
    /\ InitLoader("load_file")

SpecLoad == InitLoad /\ [][Next]_vars

\* The stats query of p has been answered.
StatsAnswered(p) ==
    /\ pc[p] = "done"
    /\ CallsOf(p, "stats") # <<>>
    /\ CallsOf(p, "stats")[1].outcome = "ok"

\* C11: a load of N records in batches of B into a table that had no
\* snapshot, run to its end with no failure and no other writer, leaves one
\* new snapshot per slice, ceil(N / B) in all, slice k of min(B, N - k * B)
\* rows, and the stats query after it reports row_count = N and that number
\* of snapshots.
C11_SnapshotPerSlice ==
    \A p \in Procs :
        LET N == Len(args[p].input_file.records)
            B == config[p].batch_size
        IN  /\ Loaded(p) =>
                  /\ table.snapshots = NewSnapshots
                  /\ Len(table.snapshots) = CeilDiv(N, B)
                  /\ \A k \in 1..Len(table.snapshots) :
                        /\ Len(table.snapshots[k].added) = Min(B, N - (k - 1) * B)
                        /\ table.snapshots[k].summary["total-records"] = Min(k * B, N)
            /\ StatsAnswered(p) =>
                  /\ stats[p]["row_count"] = PyInt(ToString(N))
                  /\ stats[p]["snapshot_count"] = PyInt(ToString(CeilDiv(N, B)))

\* C11's case: five records in batches of two (25000 in batches of 10000, in
\* units of 5000 records): commits of 2, 2 and 1 rows, row_count = 5.
C11_Witness ==
    \E p \in Procs :
        /\ StatsAnswered(p)
        /\ config[p].batch_size = 2
        /\ Len(table.snapshots) = 3
        /\ Len(table.snapshots[1].added) = 2
        /\ Len(table.snapshots[2].added) = 2
        /\ Len(table.snapshots[3].added) = 1
        /\ stats[p]["row_count"] = PyInt("5")

(***************************************************************************)
(* main from its first statement: the loader is constructed inside the try *)
(* (line 400), _load_config first and _setup_connections after it.         *)
(***************************************************************************)
\* Lines 38, 43-78: the configuration, or the exception in main's except.
LoadConfig(p) ==
    /\ pc[p] = "start"
    /\ LET r == load_config(config_file[p], environ[p])
       IN  IF r.ok
           THEN /\ config' = [config EXCEPT ![p] = r.config]
                /\ pc' = [pc EXCEPT ![p] = "connect"]
                /\ UNCHANGED <<exit_code, error>>
           ELSE /\ Fail(p, r.err)
                /\ UNCHANGED config
    /\ UNCHANGED <<table, calls, args, process_vars, events, validated_events, uuid_calls,
                   tables, arrow_table, offset, count, stats, table0>>

\* RestCatalog(...) reaches the catalog for its configuration and can fail.
ConnectOutcomes == {"ok", "error"}

\* Lines 80-99: the catalog client, then the S3 client when the config has
\* an s3_endpoint.
SetupConnections(p) ==
    /\ pc[p] = "connect"
    /\ \E outcome \in ConnectOutcomes :
          IF outcome = "ok"
          THEN /\ connections' = [connections EXCEPT ![p] =
                      IF "s3_endpoint" \in DOMAIN config[p]
                      THEN <<Connection("catalog", "ok"), Connection("s3", "ok")>>
                      ELSE <<Connection("catalog", "ok")>>]
               /\ pc' = [pc EXCEPT ![p] = "load_file"]
               /\ UNCHANGED <<exit_code, error>>
          ELSE /\ connections' = [connections EXCEPT ![p] = <<Connection("catalog", "error")>>]
               /\ Fail(p, "ConnectionError")
    /\ UNCHANGED <<table, calls, args, environ, config_file, run, config, events,
                   validated_events, uuid_calls, tables, arrow_table, offset, count,
                   stats, table0>>

\* What a config file and the environment can hold.
FileValues ==
    [catalog_uri |-> Str("https://file-catalog"), warehouse_name |-> Str("file-wh"),
     api_token |-> Str("file-token"), s3_endpoint |-> Str("https://file-s3"),
     batch_size |-> 2]

EnvValues ==
    [DATALAKE_CATALOG_URI |-> "https://env-catalog", DATALAKE_WAREHOUSE_NAME |-> "env-wh",
     CLOUDFLARE_API_TOKEN |-> "env-token", R2_S3_API_URL |-> "https://env-s3"]

RequiredSet == {required_fields[i] : i \in DOMAIN required_fields}

StartupFiles ==
    {NoConfigFile, EmptyConfigFile}
    \cup {ConfigMapping([k \in R \cup X |-> FileValues[k]]) :
             R \in SUBSET RequiredSet, X \in {{}, {"batch_size"}}}
    \cup {ConfigMapping([k \in RequiredSet \cup {"s3_endpoint"} |-> FileValues[k]]),
          ConfigMapping([k \in RequiredSet |-> IF k = "api_token" THEN None ELSE FileValues[k]])}

\* A variable is unset, or set; DATALAKE_CATALOG_URI may also be set to "".
StartupEnvs ==
    {[k \in S |-> IF k \in E THEN "" ELSE EnvValues[k]] :
        S \in SUBSET DOMAIN EnvValues, E \in SUBSET {"DATALAKE_CATALOG_URI"}}

StartupInputs ==
    {NoFile, File(<<>>), File(<<FullEvent>>), File(<<BadValueEvent>>),
     File(<<FullEvent, BareEvent>>)}

InitStartup ==
    /\ table \in {AbsentTable, EmptyTable}
    /\ table0 = table
    /\ args \in [Procs -> [input_file : StartupInputs, organization_id : {OrgId},
                           dry_run : BOOLEAN, stats : BOOLEAN]]
    /\ config_file \in [Procs -> StartupFiles]
    /\ environ \in [Procs -> StartupEnvs]
    /\ config = [p \in Procs |-> <<>>]
    /\ connections = [p \in Procs |-> <<>>]
    /\ run = [p \in Procs |-> 1]
    /\ InitLoader("start")

NextStartup ==
    \/ Next
    \/ \E p \in Procs : LoadConfig(p)
    \/ \E p \in Procs : SetupConnections(p)

SpecStartup == InitStartup /\ [][NextStartup]_vars

\* The keys the merge of the file and the environment has: the file's, and
\* those of the environment variables that are set to something.
MergedKeys(p) ==
    (IF config_file[p].mapping THEN DOMAIN config_file[p].doc ELSE {})
    \cup {env_mapping[k] : k \in {e \in DOMAIN environ[p] : environ[p][e] # ""}}

MissingRequired(p) == SelectSeq(required_fields, LAMBDA f : f \notin MergedKeys(p))

\* The variables that are set to something and mapped to the key c.
EnvKeys(p, c) == {k \in DOMAIN environ[p] : environ[p][k] # "" /\ env_mapping[k] = c}

\* C12 as claimed: when a required key is missing from the merge of file and
\* environment, the loader fails with the error that names the missing keys,
\* having attempted no connection, read no input and issued no catalog call;
\* and a loaded config has, field by field, the environment's value where it
\* is set and the file's value otherwise.
C12_MissingConfigIsNamed ==
    \A p \in Procs :
        /\ MissingRequired(p) # <<>> =>
              /\ pc[p] \in {"start", "done"}
              /\ connections[p] = <<>>
              /\ CallsOf(p, "load_table") = <<>>
              /\ events[p] = <<>>
              /\ pc[p] = "done" =>
                    /\ exit_code[p] = 1
                    /\ error[p] = MissingMessage(MissingRequired(p))
        /\ pc[p] \notin {"start", "done"} =>
              \A c \in MergedKeys(p) :
                  config[p][c] =
                      IF EnvKeys(p, c) # {}
                      THEN Str(environ[p][CHOOSE k \in EnvKeys(p, c) : TRUE])
                      ELSE config_file[p].doc[c]

\* A stage of the run of p raised: the configuration (the config or a
\* connection), the reading of the input, the validation, the provisioning
\* (a create_table that failed: a load_table that failed leads to one), or the
\* batch load (the conversion to arrow or a commit).
Raised(p) ==
    \/ ~load_config(config_file[p], environ[p]).ok
    \/ \E i \in DOMAIN connections[p] : connections[p][i].outcome = "error"
    \/ ~args[p].input_file.exists
    \/ ~validate_events(args[p].input_file.records, args[p].organization_id, p, 0).ok
    \/ \E i \in DOMAIN calls :
          /\ calls[i].p = p
          /\ calls[i].op \in {"create_table", "append"}
          /\ calls[i].outcome # "ok"
    \/ /\ ~args[p].dry_run
       /\ MixedColumn(ToRows(validated_events[p]))

\* C13 as claimed: main returns 0 exactly when no stage raised, and 1 when
\* one did; a stats query that fails is no such stage.
C13_ExitCode ==
    \A p \in Procs :
        pc[p] = "done" =>
            /\ exit_code[p] \in {0, 1}
            /\ exit_code[p] = 0 <=> ~Raised(p)

(***************************************************************************)
(* Two loader processes, each running bulk_load of its own input against   *)
(* the same table, which is absent at first.  The steps of the two         *)
(* interleave at the catalog calls.                                        *)
(***************************************************************************)
Loaders == {1, 2}

InitRace ==
    /\ table = AbsentTable
    /\ table0 = table
    /\ args = [p \in Loaders |->
                 [input_file |-> File(<<FullEvent>>), organization_id |-> OrgId,
                  dry_run |-> FALSE, stats |-> FALSE]]
    /\ config_file = [p \in Loaders |-> BatchSizeFile(1)]
    /\ environ = [p \in Loaders |-> FullEnv]
    /\ config = [p \in Loaders |-> load_config(config_file[p], environ[p]).config]
    /\ connections = [p \in Loaders |-> <<Connection("catalog", "ok")>>]
    /\ run = [p \in Loaders |-> 1]
    /\ calls = <<>>
    /\ pc = [p \in Loaders |-> "load_file"]
    /\ events = [p \in Loaders |-> <<>>]
    /\ validated_events = [p \in Loaders |-> <<>>]
    /\ uuid_calls = [p \in Loaders |-> 0]
    /\ tables = [p \in Loaders |-> <<>>]
    /\ arrow_table = [p \in Loaders |-> <<>>]
    /\ offset = [p \in Loaders |-> 0]
    /\ count = [p \in Loaders |-> -1]
    /\ stats = [p \in Loaders |-> EmptyStats]
    /\ exit_code = [p \in Loaders |-> -1]
    /\ error = [p \in Loaders |-> "none"]

NextRace ==
    \E p \in Loaders :
        \/ LoadEventsFromFile(p)
        \/ ValidateEvents(p)
        \/ LoadTable(p)
        \/ CreateTable(p)
        \/ PrepareBatches(p)
        \/ AppendBatch(p)
        \/ FinishLoad(p)
        \/ ReturnZero(p)

SpecRace == InitRace /\ [][NextRace]_vars

\* The positions in the log of the calls of p.
CallIndexes(p) == {i \in DOMAIN calls : calls[i].p = p}

\* Both loaders were told the table is absent before either created it.
BothObservedAbsent ==
    /\ Len(calls) >= 2
    /\ calls[1].p # calls[2].p
    /\ \A i \in {1, 2} : calls[i].op = "load_table" /\ calls[i].outcome = "not_found"

\* C14: a loader that was told the table is absent issues create_table with
\* nothing in between, whatever the other loader has done meanwhile; at most
\* one create_table succeeds; and a loader whose create_table fails ends its
\* run there with exit code 1, having committed nothing.
C14_CheckThenCreateRace ==
    /\ Cardinality({i \in DOMAIN calls :
                       calls[i].op = "create_table" /\ calls[i].outcome = "ok"}) <= 1
    /\ \A p \in Loaders :
          /\ \A i \in CallIndexes(p) :
                (calls[i].op = "load_table" /\ calls[i].outcome # "ok") =>
                    \/ pc[p] = "create_table" /\ i = CHOOSE m \in CallIndexes(p) :
                                                        \A n \in CallIndexes(p) : n <= m
                    \/ \E j \in CallIndexes(p) :
                          /\ j > i
                          /\ calls[j].op = "create_table"
                          /\ \A n \in CallIndexes(p) : ~(i < n /\ n < j)
          /\ \A i \in CallIndexes(p) :
                (calls[i].op = "create_table" /\ calls[i].outcome # "ok") =>
                    /\ pc[p] = "done"
                    /\ exit_code[p] = 1
                    /\ error[p] = "CreateTableError"
                    /\ \A n \in CallIndexes(p) : n <= i
                    /\ AppendsOf(p) = <<>>

\* C14's case: both loaders observed the table as absent, both issued
\* create_table, one created it and the other was refused and exited with 1.
C14_Witness ==
    \E w \in Loaders, l \in Loaders :
        /\ w # l
        /\ BothObservedAbsent
        /\ \E i \in CallIndexes(w) : calls[i].op = "create_table" /\ calls[i].outcome = "ok"
        /\ \E i \in CallIndexes(l) :
              calls[i].op = "create_table" /\ calls[i].outcome = "already_exists"
        /\ pc[l] = "done"
        /\ exit_code[l] = 1
        /\ pc[w] = "done"
        /\ exit_code[w] = 0

(***************************************************************************)
(* The loader run again with the same arguments and configuration after a  *)
(* run that ended, with 0 or with 1: a new process, against the table the   *)
(* earlier runs left.                                                      *)
(***************************************************************************)
Rerun(p) ==
    /\ pc[p] = "done"
    /\ run[p] < MaxRuns
    /\ run' = [run EXCEPT ![p] = @ + 1]
    /\ pc' = [pc EXCEPT ![p] = "load_file"]
    /\ events' = [events EXCEPT ![p] = <<>>]
    /\ validated_events' = [validated_events EXCEPT ![p] = <<>>]
    /\ tables' = [tables EXCEPT ![p] = <<>>]
    /\ arrow_table' = [arrow_table EXCEPT ![p] = <<>>]
    /\ offset' = [offset EXCEPT ![p] = 0]
    /\ count' = [count EXCEPT ![p] = -1]
    /\ stats' = [stats EXCEPT ![p] = EmptyStats]
    /\ exit_code' = [exit_code EXCEPT ![p] = -1]
    /\ error' = [error EXCEPT ![p] = "none"]
    /\ UNCHANGED <<table, calls, args, environ, config_file, connections, config,
                   uuid_calls, table0>>

RerunInputs == {File(r) : r \in SeqsUpTo(ScenarioEvents, MaxRecords)}

InitRerun ==
    /\ table \in {AbsentTable, EmptyTable}
    /\ table0 = table
    /\ args \in [Procs -> [input_file : RerunInputs, organization_id : {OrgId},
                           dry_run : BOOLEAN, stats : BOOLEAN]]
    /\ config_file \in [Procs -> ConfigFiles]
    /\ Constructed
    /\ InitLoader("load_file")

NextRerun ==
    \/ Next
    \/ \E p \in Procs : Rerun(p)

SpecRerun == InitRerun /\ [][NextRerun]_vars

\* The appends of p that committed, in commit order: the m-th made the m-th
\* new snapshot.
Committed(p) == SelectSeq(AppendsOf(p), LAMBDA c : c.outcome = "ok")

MaskRows(rows) == [k \in 1..Len(rows) |-> Mask(rows[k])]

RECURSIVE SumRows(_)
SumRows(appends) ==
    IF appends = <<>> THEN 0 ELSE appends[1].n + SumRows(Tail(appends))

\* C15: when a run of p has loaded its input of N records in batches of B,
\* whatever the runs before it committed, its own ceil(N / B) commits are the
\* last ones; every slice an earlier run committed was committed again by this
\* run, with the same records (generated ids apart), so that the table holds
\* it at least twice; and the table holds as many rows as all the commits
\* added: no append was left out for what the table already had.
C15_RerunAppendsAgain ==
    \A p \in Procs :
        Loaded(p) =>
            LET N == Len(args[p].input_file.records)
                B == config[p].batch_size
                own == CeilDiv(N, B)
                K == Len(Committed(p)) - own
            IN  /\ K >= 0
                /\ Len(NewSnapshots) = Len(Committed(p))
                /\ Len(RowsOf(NewSnapshots)) = SumRows(Committed(p))
                /\ \A m \in 1..K :
                      LET again == K + (Committed(p)[m].i \div B) + 1
                      IN  /\ again <= Len(Committed(p))
                          /\ Committed(p)[again].i = Committed(p)[m].i
                          /\ MaskRows(NewSnapshots[again].added)
                                = MaskRows(NewSnapshots[m].added)

\* C15's case: the first run committed its first slice and failed at the
\* next; the second run, same input, completed: the first slice is in the
\* table twice.
C15_Witness ==
    \E p \in Procs :
        /\ run[p] = 2
        /\ Loaded(p)
        /\ pc[p] = "done"
        /\ config[p].batch_size = 1
        /\ Len(args[p].input_file.records) = 2
        /\ Len(AppendsOf(p)) = 4
        /\ AppendsOf(p)[2].outcome = "error"
        /\ Len(NewSnapshots) = 3
        /\ MaskRows(NewSnapshots[1].added) = MaskRows(NewSnapshots[2].added)

====
